---- MODULE Spec2Model ----
(***************************************************************************)
(* A model of gc.c: a tagged-union object heap kept in an intrusive        *)
(* singly-linked registry, a root stack, a growable array, a recursive     *)
(* mark phase, a linear sweep phase that prints one trace line per node,   *)
(* and the tokenizer/interpreter of the little stack language.             *)
(***************************************************************************)
EXTENDS Integers, Sequences, FiniteSets, TLC

\* ---------------------------------------------------------------- bounds
\* Number of addresses malloc can hand out at the same time.
MaxObj == 2
\* The callers of the general specification push at most this many roots.
MaxStack == 2
\* The callers of the general specification append at most this many elements.
MaxLen == 2
\* The array test appends at most this many elements ...
MaxAppend == 33
\* ... of which it chooses this many freely; the later ones repeat them in turn.
FreeElements == 3
\* Addresses malloc can hand out to a program, and the collections its owner
\* invokes during and after a run.
ProgObj == 15
MaxCollects == 2

\* ------------------------------------------------------ program constants
INITIAL_ARRAY_SIZE == 16
STACK_SIZE == 256

NULL == 0
\* The content of a buffer slot that was never written.
UNINIT == -1
Addr == 1..MaxObj
Ref == Addr \cup {NULL}
\* The double values and the texts the callers of the general specification use.
NumVals == {1}
StrVals == {"s"}

VARIABLES
  heap,             \* Addr -> struct Object (type "FREE": not allocated)
  list_of_objects,  \* head of the registry
  stack,            \* stack[1..stack_length] are the C slots 0..stack_length-1
  stack_length,
  pc,               \* "idle", or the position inside stop_the_world_mark_and_sweep
  mi,               \* the loop index i of mark()
  callstack,        \* the active mark_object frames: <<[obj, i]>>
  object,           \* sweep's local "object"
  previous,         \* sweep's local "previous"
  ret,              \* the value the last call returned
  trace,            \* the lines sweep has printed in the current/last pass
  atcall,           \* what held when the current/last collect was invoked
  marked,           \* per address: how often this pass set mark from 0 to 1
  code,             \* the program text, one character per element
  to,               \* the tokenizer's cursor (0-based offset into code)
  from,             \* start of the current lexeme
  token,            \* interpret's local token: the type of the last one
  output,           \* the lines the interpreter's print has written
  collects,         \* how many collections the program has invoked
  appended,         \* the elements the array test has appended, in order
  got               \* the index of the array test's last get_element, or -1

vars == <<heap, list_of_objects, stack, stack_length, pc, mi, callstack, object,
          previous, ret, trace, atcall, marked, code, to, from, token, output,
          collects, appended, got>>

gcvars == <<pc, mi, callstack, object, previous, trace, atcall, marked>>
lexvars == <<code, to, from, token, output>>
testvars == <<appended, got>>
drivervars == <<code, to, from, token, output, collects, appended, got>>

\* ------------------------------------------------------------ the objects
\* struct Object.  The members of the union that a type does not use keep the
\* values below; the code's reads of such a member are modelled as
\* indeterminate where they occur.
Object ==
  [type |-> "FREE", mark |-> 0, next |-> NULL, number |-> 0, head |-> NULL,
   tail |-> NULL, length |-> 0, size |-> 0, array |-> <<>>, string |-> ""]

\* The machine state the library functions work on; ret is the value the
\* call returns (NULL while it has returned none).
M == [heap |-> heap, list_of_objects |-> list_of_objects, stack |-> stack,
      stack_length |-> stack_length, ret |-> NULL]

\* malloc returns an address that is not allocated.  The program only compares
\* addresses for equality, so which free address it is does not matter: the
\* model takes the least one (none when the bound is exhausted).
malloc(h) ==
  LET free == {a \in DOMAIN h : h[a].type = "FREE"} IN
  {a \in free : \A b \in free : a <= b}

\* The registry as the sequence of addresses met by following next from l.
RECURSIVE Chain(_, _, _)
Chain(h, l, fuel) ==
  IF l = NULL \/ fuel = 0 THEN <<>> ELSE <<l>> \o Chain(h, h[l].next, fuel - 1)

Registry(h, l) == Chain(h, l, Cardinality(DOMAIN h) + 1)
Range(s) == {s[i] : i \in 1..Len(s)}
Registered(h, l) == Range(Registry(h, l))

\* Mutant of new_object: the new node is not chained to the old head.
new_object_nolink(m, a) ==
  [m EXCEPT !.heap = [m.heap EXCEPT ![a] = [Object EXCEPT !.type = "NEW",
                                                         !.mark = 0,
                                                         !.next = NULL]],
            !.list_of_objects = a,
            !.ret = a]

\* new_object: malloc, mark = 0, prepend to the registry.
new_object(m, a) ==
  [m EXCEPT !.heap = [m.heap EXCEPT ![a] = [Object EXCEPT !.type = "NEW",
                                                         !.mark = 0,
                                                         !.next = m.list_of_objects]],
            !.list_of_objects = a,
            !.ret = a]

\* calloc(INITIAL_ARRAY_SIZE, ...): a zeroed buffer.
calloc(n) == [i \in 1..n |-> NULL]

new_array(m, a) ==
  LET m1 == new_object(m, a) IN
  [m1 EXCEPT !.heap = [m1.heap EXCEPT ![a].type = "ARRAY",
                                      ![a].length = 0,
                                      ![a].size = INITIAL_ARRAY_SIZE,
                                      ![a].array = calloc(INITIAL_ARRAY_SIZE)]]

new_number(m, number, a) ==
  LET m1 == new_object(m, a) IN
  [m1 EXCEPT !.heap = [m1.heap EXCEPT ![a].type = "NUMBER", ![a].number = number]]

new_pair(m, head, tail, a) ==
  LET m1 == new_object(m, a) IN
  [m1 EXCEPT !.heap = [m1.heap EXCEPT ![a].type = "PAIR", ![a].head = head,
                                      ![a].tail = tail]]

new_string(m, string, a) ==
  LET m1 == new_object(m, a) IN
  [m1 EXCEPT !.heap = [m1.heap EXCEPT ![a].type = "STRING", ![a].string = string]]

\* delete_object: frees the variant's buffer and the node; the memory is
\* no longer an object.
delete_object(h, o) == IF o # NULL THEN [h EXCEPT ![o] = Object] ELSE h

\* Mutant of realloc: the new buffer does not receive the old contents.
realloc_nocopy(buf, n) == [i \in 1..n |-> UNINIT]

\* realloc to n slots: the old contents are kept, the new slots are
\* uninitialised.
realloc(buf, n) == [i \in 1..n |-> IF i <= Len(buf) THEN buf[i] ELSE UNINIT]

append_element(m, array, element) ==
  LET o == m.heap[array]
      grown == IF o.length = o.size
               THEN [o EXCEPT !.size = o.size * 2, !.array = realloc(o.array, o.size * 2)]
               ELSE o
  IN [m EXCEPT !.heap = [m.heap EXCEPT ![array] =
        [grown EXCEPT !.array = [grown.array EXCEPT ![grown.length + 1] = element],
                      !.length = grown.length + 1]]]

get_element(m, array, index) == [m EXCEPT !.ret = m.heap[array].array[index + 1]]

set_element(m, array, index, element) ==
  [m EXCEPT !.heap = [m.heap EXCEPT ![array].array =
                        [m.heap[array].array EXCEPT ![index + 1] = element]]]

\* ------------------------------------------------------------ root stack
push(m, o) ==
  [m EXCEPT !.stack = [i \in 1..(m.stack_length + 1) |->
                         IF i <= m.stack_length THEN m.stack[i] ELSE o],
            !.stack_length = m.stack_length + 1]

\* Mutant of pop: the top is returned but stack_length is not decremented.
pop_keep(m) == [m EXCEPT !.ret = m.stack[m.stack_length]]

\* Mutant of pop: the popped object is released on the spot.
pop_free(m) ==
  [m EXCEPT !.stack = SubSeq(m.stack, 1, m.stack_length - 1),
            !.stack_length = m.stack_length - 1,
            !.ret = IF m.stack_length >= 1 THEN m.stack[m.stack_length] ELSE UNINIT,
            !.heap = IF m.stack_length >= 1
                     THEN delete_object(m.heap, m.stack[m.stack_length])
                     ELSE m.heap]

\* pop checks nothing: it decrements stack_length and reads the slot at the
\* new index; below slot 0 the read is outside the array and its value
\* indeterminate.
pop(m) ==
  [m EXCEPT !.stack = SubSeq(m.stack, 1, m.stack_length - 1),
            !.stack_length = m.stack_length - 1,
            !.ret = IF m.stack_length >= 1 THEN m.stack[m.stack_length] ELSE UNINIT]

peek(m) ==
  [m EXCEPT !.ret = IF m.stack_length >= 1 THEN m.stack[m.stack_length] ELSE UNINIT]

\* ------------------------------------------------------------- printing
\* What a call of print_object does: it returns having written text, or it
\* never returns (loop), or it reads memory whose content is indeterminate
\* (undef: freed memory, or a union member the object's type does not set).
Ok(t) == [loop |-> FALSE, undef |-> FALSE, text |-> t]
Never == [loop |-> TRUE, undef |-> FALSE, text |-> ""]
Undefined == [loop |-> FALSE, undef |-> TRUE, text |-> ""]
\* r1, then r2.
Then(r1, r2) ==
  IF r1.loop THEN r1
  ELSE [loop |-> r2.loop, undef |-> r1.undef \/ r2.undef, text |-> r1.text \o r2.text]

\* A chain of nested calls and loop rounds longer than this visits some
\* object twice in the same role, and so never ends.
PrintFuel(h) == 2 * Cardinality(DOMAIN h) + 2

RECURSIVE print_object(_, _, _), print_array(_, _, _, _), print_tail(_, _, _)

\* The loop of print_array from index i on.
print_array(h, array, i, fuel) ==
  IF i >= h[array].length THEN Ok("")
  ELSE Then(Then(IF i > 0 THEN Ok(", ") ELSE Ok(""),
                 print_object(h, h[array].array[i + 1], fuel)),
            print_array(h, array, i + 1, fuel))

\* Mutant of print_tail: a chain that ends in null is printed with " . null".
print_tail_dotnull(h, obj, fuel) ==
  IF fuel = 0 THEN Never
  ELSE IF obj = NULL THEN Ok(" . null")
  ELSE IF h[obj].type = "FREE" THEN Undefined
  ELSE IF h[obj].type = "PAIR"
       THEN Then(Then(Ok(" "), print_object(h, h[obj].head, fuel - 1)),
                 print_tail(h, h[obj].tail, fuel - 1))
       ELSE Then(Ok(" . "), Undefined)

\* The PAIR case after the head: the while loop over the tails, then the
\* " . " branch, which passes object->tail of an object that is no PAIR.
print_tail(h, obj, fuel) ==
  IF fuel = 0 THEN Never
  ELSE IF obj = NULL THEN Ok("")
  ELSE IF h[obj].type = "FREE" THEN Undefined
  ELSE IF h[obj].type = "PAIR"
       THEN Then(Then(Ok(" "), print_object(h, h[obj].head, fuel - 1)),
                 print_tail(h, h[obj].tail, fuel - 1))
       ELSE Then(Ok(" . "), Undefined)

print_object(h, obj, fuel) ==
  IF fuel = 0 THEN Never
  ELSE IF obj = NULL THEN Ok("null")
  ELSE CASE h[obj].type = "ARRAY" ->
              Then(Then(Ok("["), print_array(h, obj, 0, fuel - 1)), Ok("]"))
         [] h[obj].type = "NUMBER" -> Ok(ToString(h[obj].number))
         [] h[obj].type = "PAIR" ->
              Then(Then(Then(Ok("("), print_object(h, h[obj].head, fuel - 1)),
                        print_tail(h, h[obj].tail, fuel - 1)),
                   Ok(")"))
         [] h[obj].type = "STRING" -> Ok("\"" \o h[obj].string \o "\"")
         [] OTHER -> Undefined

\* The text of a line whose printing returned.
Text(r) == IF r.undef THEN "<indeterminate>" ELSE r.text

\* ---------------------------------------------------------- reachability
\* Mutant of Children: the PAIR case forgets mark_object(object->tail).
ChildrenHeadOnly(h, o) ==
  CASE h[o].type = "PAIR" -> <<h[o].head>>
    [] h[o].type = "ARRAY" -> SubSeq(h[o].array, 1, h[o].length)
    [] OTHER -> <<>>

\* The calls mark_object makes for the object it has just marked, in order:
\* head and tail of a PAIR, the elements below length of an ARRAY.
Children(h, o) ==
  CASE h[o].type = "PAIR" -> <<h[o].head, h[o].tail>>
    [] h[o].type = "ARRAY" -> SubSeq(h[o].array, 1, h[o].length)
    [] OTHER -> <<>>

\* The references an object holds (struct Object's union).
Pointees(h, o) ==
  IF h[o].type = "PAIR" THEN {h[o].head, h[o].tail} \ {NULL}
  ELSE IF h[o].type = "ARRAY"
       THEN {h[o].array[i] : i \in 1..h[o].length} \ {NULL}
       ELSE {}

RECURSIVE Closure(_, _, _)
Closure(h, s, fuel) ==
  LET t == s \cup UNION {Pointees(h, o) : o \in s} IN
  IF t = s \/ fuel = 0 THEN s ELSE Closure(h, t, fuel - 1)

\* The objects transitively reachable from the entries of the root stack.
Reachable(h, st, len) ==
  Closure(h, {st[i] : i \in 1..len} \ {NULL}, Cardinality(DOMAIN h))

\* ------------------------------------------------------------ the callers
NoCall == [status |-> "none", list |-> <<>>, reach |-> {}, heap |-> <<>>,
           stack |-> <<>>, again |-> FALSE]
NoMarks == [a \in DOMAIN heap |-> 0]

\* The references a caller can hold: objects that have not been released.
Live == Registered(heap, list_of_objects) \cup {NULL}
Arrays == {a \in Registered(heap, list_of_objects) : heap[a].type = "ARRAY"}

\* A library call made by the owning program, outside a collection.
Call(m) ==
  /\ pc = "idle"
  /\ heap' = m.heap
  /\ list_of_objects' = m.list_of_objects
  /\ stack' = m.stack
  /\ stack_length' = m.stack_length
  /\ ret' = m.ret
  /\ trace' = <<>>
  /\ atcall' = NoCall
  /\ marked' = NoMarks
  /\ UNCHANGED <<pc, mi, callstack, object, previous>>

NewNumber ==
  \E number \in NumVals, a \in malloc(heap) :
    Call(new_number(M, number, a)) /\ UNCHANGED drivervars

NewPair ==
  \E head \in Live, tail \in Live, a \in malloc(heap) :
    Call(new_pair(M, head, tail, a)) /\ UNCHANGED drivervars

NewArray == \E a \in malloc(heap) : Call(new_array(M, a)) /\ UNCHANGED drivervars

NewString ==
  \E string \in StrVals, a \in malloc(heap) :
    Call(new_string(M, string, a)) /\ UNCHANGED drivervars

AppendElement ==
  \E array \in Arrays, element \in Live :
    /\ heap[array].length < MaxLen
    /\ Call(append_element(M, array, element))
    /\ UNCHANGED drivervars

GetElement ==
  \E array \in Arrays :
    \E index \in 0..(heap[array].length - 1) :
      Call(get_element(M, array, index)) /\ UNCHANGED drivervars

SetElement ==
  \E array \in Arrays, element \in Live :
    \E index \in 0..(heap[array].length - 1) :
      Call(set_element(M, array, index, element)) /\ UNCHANGED drivervars

Push ==
  \E o \in Live :
    stack_length < MaxStack /\ Call(push(M, o)) /\ UNCHANGED drivervars

Pop == stack_length > 0 /\ Call(pop(M)) /\ UNCHANGED drivervars

Peek == stack_length > 0 /\ Call(peek(M)) /\ UNCHANGED drivervars

\* ------------------------------------------------------------- collection
\* stop_the_world_mark_and_sweep is entered: mark() starts with i = 0.
collect ==
  /\ pc = "idle"
  /\ pc' = "mark"
  /\ mi' = 0
  /\ callstack' = <<>>
  /\ trace' = <<>>
  /\ marked' = NoMarks
  /\ atcall' = [status |-> "running",
                list |-> Registry(heap, list_of_objects),
                reach |-> Reachable(heap, stack, stack_length),
                heap |-> heap,
                stack |-> stack,
                again |-> atcall.status = "returned"]
  /\ UNCHANGED <<heap, list_of_objects, stack, stack_length, object, previous, ret>>

\* A collection the callers of the general specification invoke.
Collect == collect /\ UNCHANGED drivervars

\* Mutant of mark_object: the guard is "if (object)", without "!object->mark".
mark_object_noguard(h, cs, mk, x) ==
  IF x # NULL
  THEN [heap |-> [h EXCEPT ![x].mark = 1],
        callstack |-> Append(cs, [obj |-> x, i |-> 0]),
        marked |-> [mk EXCEPT ![x] = @ + 1]]
  ELSE [heap |-> h, callstack |-> cs, marked |-> mk]

\* Mutant of mark_object: the object is marked but the switch that visits its
\* children is left out.
mark_object_shallow(h, cs, mk, x) ==
  IF x # NULL /\ h[x].mark = 0
  THEN [heap |-> [h EXCEPT ![x].mark = 1],
        callstack |-> cs,
        marked |-> [mk EXCEPT ![x] = @ + 1]]
  ELSE [heap |-> h, callstack |-> cs, marked |-> mk]

\* A call mark_object(x) made with the frames cs active: the guard, the
\* mark, and the frame in which the switch then visits the children.
mark_object(h, cs, mk, x) ==
  IF x # NULL /\ h[x].mark = 0
  THEN [heap |-> [h EXCEPT ![x].mark = 1],
        callstack |-> Append(cs, [obj |-> x, i |-> 0]),
        marked |-> [mk EXCEPT ![x] = @ + 1]]
  ELSE [heap |-> h, callstack |-> cs, marked |-> mk]

Marking(r) ==
  /\ heap' = r.heap
  /\ callstack' = r.callstack
  /\ marked' = r.marked
  /\ UNCHANGED <<list_of_objects, stack, stack_length, pc, object, previous, ret,
                 trace, atcall>>

\* mark(): the loop body, mark_object(stack[i]).
mark ==
  /\ pc = "mark" /\ callstack = <<>> /\ mi < stack_length
  /\ mi' = mi + 1
  /\ Marking(mark_object(heap, callstack, marked, stack[mi + 1]))
  /\ UNCHANGED drivervars

\* Inside mark_object / mark_elements: the call for the next child.
mark_elements ==
  /\ pc = "mark" /\ callstack # <<>>
  /\ LET top == callstack[Len(callstack)]
         kids == Children(heap, top.obj)
     IN /\ top.i < Len(kids)
        /\ Marking(mark_object(heap,
                                [callstack EXCEPT ![Len(callstack)].i = top.i + 1],
                                marked, kids[top.i + 1]))
  /\ UNCHANGED mi
  /\ UNCHANGED drivervars

\* mark_object returns to its caller.
mark_return ==
  /\ pc = "mark" /\ callstack # <<>>
  /\ LET top == callstack[Len(callstack)] IN top.i = Len(Children(heap, top.obj))
  /\ callstack' = SubSeq(callstack, 1, Len(callstack) - 1)
  /\ UNCHANGED <<heap, list_of_objects, stack, stack_length, pc, mi, object, previous,
                 ret, trace, atcall, marked>>
  /\ UNCHANGED drivervars

\* mark() returns and sweep() starts.
sweep_begin ==
  /\ pc = "mark" /\ callstack = <<>> /\ mi = stack_length
  /\ pc' = "sweep"
  /\ object' = list_of_objects
  /\ previous' = NULL
  /\ UNCHANGED <<heap, list_of_objects, stack, stack_length, mi, callstack, ret,
                 trace, atcall, marked>>
  /\ UNCHANGED drivervars

\* Mutant of sweep_node: an unmarked first node is freed but the registry
\* head is not moved past it.
sweep_node_keephead(h, l, obj, prev, tr, r) ==
  IF h[obj].mark # 0
  THEN [heap |-> [h EXCEPT ![obj].mark = 0],
        list_of_objects |-> l,
        trace |-> Append(tr, [kind |-> "I won't delete this: ", obj |-> obj,
                              text |-> Text(r)]),
        previous |-> obj,
        object |-> h[obj].next]
  ELSE [heap |-> delete_object(IF prev # NULL
                               THEN [h EXCEPT ![prev].next = h[obj].next]
                               ELSE h, obj),
        list_of_objects |-> l,
        trace |-> Append(tr, [kind |-> "I will delete this: ", obj |-> obj,
                              text |-> Text(r)]),
        previous |-> prev,
        object |-> h[obj].next]

\* Mutant of sweep_node: a survivor's mark is not cleared.
sweep_node_keepmark(h, l, obj, prev, tr, r) ==
  IF h[obj].mark # 0
  THEN [heap |-> h,
        list_of_objects |-> l,
        trace |-> Append(tr, [kind |-> "I won't delete this: ", obj |-> obj,
                              text |-> Text(r)]),
        previous |-> obj,
        object |-> h[obj].next]
  ELSE [heap |-> delete_object(IF prev # NULL
                               THEN [h EXCEPT ![prev].next = h[obj].next]
                               ELSE h, obj),
        list_of_objects |-> IF prev # NULL THEN l ELSE h[obj].next,
        trace |-> Append(tr, [kind |-> "I will delete this: ", obj |-> obj,
                              text |-> Text(r)]),
        previous |-> prev,
        object |-> h[obj].next]

\* Mutant of sweep_node: after a deletion the loop also steps over the node
\* that follows the deleted one.
sweep_node_skip(h, l, obj, prev, tr, r) ==
  IF h[obj].mark # 0
  THEN [heap |-> [h EXCEPT ![obj].mark = 0],
        list_of_objects |-> l,
        trace |-> Append(tr, [kind |-> "I won't delete this: ", obj |-> obj,
                              text |-> Text(r)]),
        previous |-> obj,
        object |-> h[obj].next]
  ELSE [heap |-> delete_object(IF prev # NULL
                               THEN [h EXCEPT ![prev].next = h[obj].next]
                               ELSE h, obj),
        list_of_objects |-> IF prev # NULL THEN l ELSE h[obj].next,
        trace |-> Append(tr, [kind |-> "I will delete this: ", obj |-> obj,
                              text |-> Text(r)]),
        previous |-> IF h[obj].next # NULL THEN h[obj].next ELSE prev,
        object |-> IF h[obj].next # NULL THEN h[h[obj].next].next ELSE NULL]

\* Mutant of sweep_node: the line of a node that is deleted carries the
\* prefix of a node that is kept.
sweep_node_samelabel(h, l, obj, prev, tr, r) ==
  IF h[obj].mark # 0
  THEN [heap |-> [h EXCEPT ![obj].mark = 0],
        list_of_objects |-> l,
        trace |-> Append(tr, [kind |-> "I won't delete this: ", obj |-> obj,
                              text |-> Text(r)]),
        previous |-> obj,
        object |-> h[obj].next]
  ELSE [heap |-> delete_object(IF prev # NULL
                               THEN [h EXCEPT ![prev].next = h[obj].next]
                               ELSE h, obj),
        list_of_objects |-> IF prev # NULL THEN l ELSE h[obj].next,
        trace |-> Append(tr, [kind |-> "I won't delete this: ", obj |-> obj,
                              text |-> Text(r)]),
        previous |-> prev,
        object |-> h[obj].next]

\* Mutant of sweep_node: a deleted node that has a predecessor stays linked
\* behind it.
sweep_node_nounlink(h, l, obj, prev, tr, r) ==
  IF h[obj].mark # 0
  THEN [heap |-> [h EXCEPT ![obj].mark = 0],
        list_of_objects |-> l,
        trace |-> Append(tr, [kind |-> "I won't delete this: ", obj |-> obj,
                              text |-> Text(r)]),
        previous |-> obj,
        object |-> h[obj].next]
  ELSE [heap |-> [h EXCEPT ![obj] = [Object EXCEPT !.next = h[obj].next]],
        list_of_objects |-> IF prev # NULL THEN l ELSE h[obj].next,
        trace |-> Append(tr, [kind |-> "I will delete this: ", obj |-> obj,
                              text |-> Text(r)]),
        previous |-> prev,
        object |-> h[obj].next]

\* Mutant of sweep_node: a kept node has its references cleared with its mark.
sweep_node_wipe(h, l, obj, prev, tr, r) ==
  IF h[obj].mark # 0
  THEN [heap |-> [h EXCEPT ![obj].mark = 0, ![obj].head = NULL, ![obj].tail = NULL,
                           ![obj].length = 0],
        list_of_objects |-> l,
        trace |-> Append(tr, [kind |-> "I won't delete this: ", obj |-> obj,
                              text |-> Text(r)]),
        previous |-> obj,
        object |-> h[obj].next]
  ELSE [heap |-> delete_object(IF prev # NULL
                               THEN [h EXCEPT ![prev].next = h[obj].next]
                               ELSE h, obj),
        list_of_objects |-> IF prev # NULL THEN l ELSE h[obj].next,
        trace |-> Append(tr, [kind |-> "I will delete this: ", obj |-> obj,
                              text |-> Text(r)]),
        previous |-> prev,
        object |-> h[obj].next]

\* The body of sweep's while loop when its print_object call returns r.
sweep_node(h, l, obj, prev, tr, r) ==
  IF h[obj].mark # 0
  THEN [heap |-> [h EXCEPT ![obj].mark = 0],
        list_of_objects |-> l,
        trace |-> Append(tr, [kind |-> "I won't delete this: ", obj |-> obj,
                              text |-> Text(r)]),
        previous |-> obj,
        object |-> h[obj].next]
  ELSE [heap |-> delete_object(IF prev # NULL
                               THEN [h EXCEPT ![prev].next = h[obj].next]
                               ELSE h, obj),
        list_of_objects |-> IF prev # NULL THEN l ELSE h[obj].next,
        trace |-> Append(tr, [kind |-> "I will delete this: ", obj |-> obj,
                              text |-> Text(r)]),
        previous |-> prev,
        object |-> h[obj].next]

\* What the print_object call of a round can do: return, never return, or,
\* having read indeterminate memory, fault.
Outcomes(r) ==
  (IF r.loop THEN {"hung"} ELSE {"returns"}) \cup (IF r.undef THEN {"crashed"} ELSE {})

\* One round of sweep's while loop.
sweep ==
  /\ pc = "sweep" /\ object # NULL
  /\ LET r == print_object(heap, object, PrintFuel(heap))
         n == sweep_node(heap, list_of_objects, object, previous, trace, r)
     IN \E outcome \in Outcomes(r) :
          IF outcome = "returns"
          THEN /\ heap' = n.heap
               /\ list_of_objects' = n.list_of_objects
               /\ trace' = n.trace
               /\ previous' = n.previous
               /\ object' = n.object
               /\ pc' = pc
          ELSE /\ pc' = outcome
               /\ UNCHANGED <<heap, list_of_objects, trace, previous, object>>
  /\ UNCHANGED <<stack, stack_length, mi, callstack, ret, atcall, marked>>
  /\ UNCHANGED drivervars

\* sweep's loop ends and stop_the_world_mark_and_sweep returns.
sweep_return ==
  /\ pc = "sweep" /\ object = NULL
  /\ pc' = "idle"
  /\ mi' = 0
  /\ previous' = NULL
  /\ atcall' = [atcall EXCEPT !.status = "returned"]
  /\ UNCHANGED <<heap, list_of_objects, stack, stack_length, callstack, object, ret,
                 trace, marked>>
  /\ UNCHANGED drivervars

\* ------------------------------------------------- the general specification
\* Any sequence of library calls and collections on an initially empty heap.
Init ==
  /\ heap = [a \in Addr |-> Object]
  /\ list_of_objects = NULL
  /\ stack = <<>>
  /\ stack_length = 0
  /\ pc = "idle"
  /\ mi = 0
  /\ callstack = <<>>
  /\ object = NULL
  /\ previous = NULL
  /\ ret = NULL
  /\ trace = <<>>
  /\ atcall = NoCall
  /\ marked = NoMarks
  /\ code = <<>>
  /\ to = 0
  /\ from = 0
  /\ token = "NONE"
  /\ output = <<>>
  /\ collects = 0
  /\ appended = <<>>
  /\ got = -1

Next ==
  \/ NewNumber
  \/ NewPair
  \/ NewArray
  \/ NewString
  \/ AppendElement
  \/ GetElement
  \/ SetElement
  \/ Push
  \/ Pop
  \/ Peek
  \/ Collect
  \/ mark
  \/ mark_elements
  \/ mark_return
  \/ sweep_begin
  \/ sweep
  \/ sweep_return

Spec == Init /\ [][Next]_vars

\* ------------------------------------------------------- the array test
\* A number, a string and then a fresh array; the test appends references to
\* them, to the array itself or NULL, and reads elements back.
TheArray == 3

InitArray ==
  LET m0 == [heap |-> [a \in 1..3 |-> Object], list_of_objects |-> NULL,
             stack |-> <<>>, stack_length |-> 0, ret |-> NULL]
      m1 == new_number(m0, 1, 1)
      m2 == new_string(m1, "s", 2)
      m3 == new_array(m2, TheArray)
  IN /\ heap = m3.heap
     /\ list_of_objects = m3.list_of_objects
     /\ stack = m3.stack
     /\ stack_length = m3.stack_length
     /\ ret = m3.ret
     /\ pc = "idle"
     /\ mi = 0
     /\ callstack = <<>>
     /\ object = NULL
     /\ previous = NULL
     /\ trace = <<>>
     /\ atcall = NoCall
     /\ marked = [a \in 1..3 |-> 0]
     /\ code = <<>>
     /\ to = 0
     /\ from = 0
     /\ token = "NONE"
     /\ output = <<>>
     /\ collects = 0
     /\ appended = <<>>
     /\ got = -1

ArrayAppend ==
  \E element \in Live :
    /\ Len(appended) < MaxAppend
    /\ Len(appended) >= FreeElements =>
         element = appended[Len(appended) - FreeElements + 1]
    /\ Call(append_element(M, TheArray, element))
    /\ appended' = Append(appended, element)
    /\ got' = -1
    /\ UNCHANGED <<code, to, from, token, output, collects>>

ArrayGet ==
  \E i \in 0..(Len(appended) - 1) :
    /\ Call(get_element(M, TheArray, i))
    /\ got' = i
    /\ UNCHANGED <<code, to, from, token, output, collects, appended>>

NextArray == ArrayAppend \/ ArrayGet

SpecArray == InitArray /\ [][NextArray]_vars

\* ------------------------------------------------------------ tokenizer
NUL == "NUL"
\* *to for the cursor t: code is NUL-terminated.
Char(c, t) == IF t < Len(c) THEN c[t + 1] ELSE NUL

\* (*to >= '\t' && *to <= '\r') || *to == ' '
WhiteSpace == {"\t", "\n", "\f", "\r", " "}
Digits == <<"0", "1", "2", "3", "4", "5", "6", "7", "8", "9">>
Digit == Range(Digits)
Lower == {"a", "b", "c", "d", "e", "f", "g", "h", "i", "j", "k", "l", "m", "n",
          "o", "p", "q", "r", "s", "t", "u", "v", "w", "x", "y", "z"}

\* while (*to in class) to++;
RECURSIVE SkipWhile(_, _, _)
SkipWhile(c, t, class) ==
  IF Char(c, t) \in class THEN SkipWhile(c, t + 1, class) ELSE t

\* atof of an optional sign and decimal digits (the literals of the model's
\* programs; a fraction or an exponent is scanned but has no value here).
RECURSIVE DigitsValue(_, _)
DigitsValue(sub, acc) ==
  IF sub = <<>> \/ Head(sub) \notin Digit THEN acc
  ELSE DigitsValue(Tail(sub),
                   10 * acc + (CHOOSE d \in 0..9 : Digits[d + 1] = Head(sub)))

atof(sub) ==
  IF sub # <<>> /\ Head(sub) = "-" THEN 0 - DigitsValue(Tail(sub), 0)
  ELSE IF sub # <<>> /\ Head(sub) = "+" THEN DigitsValue(Tail(sub), 0)
  ELSE DigitsValue(sub, 0)

\* The strcmp chain; a lexeme that is none of the keywords leaves token.type
\* unset.
Keyword(sub) ==
  CASE sub = <<"a", "d", "d">> -> "ADD_TOKEN"
    [] sub = <<"c", "o", "n", "s">> -> "CONS_TOKEN"
    [] sub = <<"d", "i", "v">> -> "DIV_TOKEN"
    [] sub = <<"m", "o", "d">> -> "MOD_TOKEN"
    [] sub = <<"m", "u", "l">> -> "MUL_TOKEN"
    [] sub = <<"n", "u", "l", "l">> -> "NULL_TOKEN"
    [] sub = <<"p", "o", "p">> -> "POP_TOKEN"
    [] sub = <<"p", "r", "i", "n", "t">> -> "PRINT_TOKEN"
    [] sub = <<"s", "u", "b">> -> "SUB_TOKEN"
    [] OTHER -> "UNSET"

\* next_token with the cursor at t; a is the address malloc returns if the
\* token is a number.  The result carries the new cursor and machine state.
RECURSIVE next_token(_, _, _, _)
next_token(m, c, t, a) ==
  LET ch == Char(c, t) IN
  IF ch = NUL
  THEN [type |-> "END_TOKEN", value |-> NULL, from |-> t, to |-> t, m |-> m]
  ELSE IF ch \in WhiteSpace
  THEN next_token(m, c, SkipWhile(c, t + 1, WhiteSpace), a)
  ELSE IF ch \in {"+", "-"} \cup Digit
  THEN LET t1 == SkipWhile(c, t + 1, Digit)
           t2 == IF Char(c, t1) = "." THEN SkipWhile(c, t1 + 1, Digit) ELSE t1
           t3 == IF Char(c, t2) \in {"E", "e"}
                 THEN SkipWhile(c, IF Char(c, t2 + 1) \in {"+", "-"}
                                   THEN t2 + 2 ELSE t2 + 1, Digit)
                 ELSE t2
       IN [type |-> "NUMBER_TOKEN", value |-> a, from |-> t, to |-> t3,
           m |-> new_number(m, atof(SubSeq(c, t + 1, t3)), a)]
  ELSE IF ch \in Lower
  THEN LET t1 == SkipWhile(c, t + 1, Lower) IN
       [type |-> Keyword(SubSeq(c, t + 1, t1)), value |-> NULL, from |-> t,
        to |-> t1, m |-> m]
  ELSE [type |-> "UNSET", value |-> NULL, from |-> t, to |-> t, m |-> m]

\* ---------------------------------------------------------- interpreter
ArithmeticTokens == {"ADD_TOKEN", "SUB_TOKEN", "MUL_TOKEN", "DIV_TOKEN", "MOD_TOKEN"}

\* a / b and fmod(a, b) on whole numbers (C truncates towards zero).
Abs(x) == IF x < 0 THEN 0 - x ELSE x
Sign(x) == IF x < 0 THEN 0 - 1 ELSE 1
TruncDiv(x, y) == Sign(x) * Sign(y) * (Abs(x) \div Abs(y))

\* operand1->number <op> operand2->number
Arithmetic(type, x, y) ==
  CASE type = "ADD_TOKEN" -> x + y
    [] type = "SUB_TOKEN" -> x - y
    [] type = "MUL_TOKEN" -> x * y
    [] type = "DIV_TOKEN" -> TruncDiv(x, y)
    [] type = "MOD_TOKEN" -> x - y * TruncDiv(x, y)

\* The doubles of the model are whole numbers: a quotient that is none (or a
\* division by zero) is outside it.
Whole(type, x, y) ==
  /\ type \in {"DIV_TOKEN", "MOD_TOKEN"} => y # 0
  /\ type = "DIV_TOKEN" => x = y * TruncDiv(x, y)

IsNumber(h, o) == o # NULL /\ h[o].type = "NUMBER"

\* The code checks nothing: a case of the switch is defined only if the stack
\* holds its operands and, for arithmetic, both are numbers.
Defined(m, type) ==
  CASE type \in ArithmeticTokens ->
         /\ m.stack_length >= 2
         /\ IsNumber(m.heap, m.stack[m.stack_length])
         /\ IsNumber(m.heap, m.stack[m.stack_length - 1])
    [] type = "CONS_TOKEN" -> m.stack_length >= 2
    [] type \in {"POP_TOKEN", "PRINT_TOKEN"} -> m.stack_length >= 1
    [] type = "UNSET" -> FALSE
    [] OTHER -> TRUE

\* Where a case that is not defined leaves the machine: its pops have been
\* made, down to the first one that reads below slot 0 of the stack.
unchecked(m, type) ==
  CASE type \in ArithmeticTokens \cup {"CONS_TOKEN"} ->
         IF m.stack_length >= 1 THEN pop(pop(m)) ELSE pop(m)
    [] type = "POP_TOKEN" -> pop(m)
    [] OTHER -> m

\* Mutant of dispatch: the first pop is taken as the left-hand operand.
dispatch_swapped(tok, a) ==
  LET m == tok.m
      m1 == pop(m)
      operand1 == m1.ret
      m2 == pop(m1)
      operand2 == m2.ret
  IN CASE tok.type \in ArithmeticTokens ->
            LET m3 == new_number(m2, Arithmetic(tok.type, m.heap[operand1].number,
                                                m.heap[operand2].number), a)
            IN push(m3, m3.ret)
       [] tok.type = "CONS_TOKEN" ->
            LET m3 == new_pair(m2, operand1, operand2, a) IN push(m3, m3.ret)
       [] tok.type = "NULL_TOKEN" -> push(m, NULL)
       [] tok.type = "NUMBER_TOKEN" -> push(m, tok.value)
       [] tok.type = "POP_TOKEN" -> pop(m)
       [] tok.type = "PRINT_TOKEN" -> peek(m)
       [] OTHER -> m

\* One case of interpret's switch for the token tok (printing aside); a is the
\* address malloc returns if the case allocates.
dispatch(tok, a) ==
  LET m == tok.m
      m1 == pop(m)
      operand2 == m1.ret
      m2 == pop(m1)
      operand1 == m2.ret
  IN CASE tok.type \in ArithmeticTokens ->
            LET m3 == new_number(m2, Arithmetic(tok.type, m.heap[operand1].number,
                                                m.heap[operand2].number), a)
            IN push(m3, m3.ret)
       [] tok.type = "CONS_TOKEN" ->
            LET m3 == new_pair(m2, operand1, operand2, a) IN push(m3, m3.ret)
       [] tok.type = "NULL_TOKEN" -> push(m, NULL)
       [] tok.type = "NUMBER_TOKEN" -> push(m, tok.value)
       [] tok.type = "POP_TOKEN" -> pop(m)
       [] tok.type = "PRINT_TOKEN" -> peek(m)
       [] OTHER -> m

\* One round of interpret's while loop: next_token, then the switch.
interpret ==
  /\ pc = "idle" /\ token # "END_TOKEN"
  /\ \E a \in malloc(heap) :
       LET tok == next_token(M, code, to, a)
           ok == Defined(tok.m, tok.type)
           m == IF ok THEN dispatch(tok, a) ELSE unchecked(tok.m, tok.type)
           r == IF ok /\ tok.type = "PRINT_TOKEN"
                THEN print_object(m.heap, m.ret, PrintFuel(m.heap))
                ELSE Ok("")
       IN /\ (ok /\ tok.type \in ArithmeticTokens) =>
               Whole(tok.type, heap[stack[stack_length - 1]].number,
                     heap[stack[stack_length]].number)
          /\ to' = tok.to
          /\ from' = tok.from
          /\ token' = tok.type
          /\ heap' = m.heap
          /\ list_of_objects' = m.list_of_objects
          /\ stack' = m.stack
          /\ stack_length' = m.stack_length
          /\ \E outcome \in (IF ok THEN Outcomes(r) ELSE {"undefined"}) :
               /\ pc' = IF outcome = "returns" THEN "idle" ELSE outcome
               /\ output' = IF outcome = "returns" /\ tok.type = "PRINT_TOKEN"
                             THEN Append(output, Text(r)) ELSE output
  /\ ret' = NULL
  /\ trace' = <<>>
  /\ atcall' = NoCall
  /\ marked' = NoMarks
  /\ UNCHANGED <<mi, callstack, object, previous, code, collects, appended, got>>

\* main (or an owner that collects between steps) calls
\* stop_the_world_mark_and_sweep.
main ==
  /\ collects < MaxCollects
  /\ collect
  /\ collects' = collects + 1
  /\ UNCHANGED <<code, to, from, token, output, appended, got>>

\* char code[]: "1 2 add 3 mul print pop 1 2 3 null cons cons cons print"
Code ==
  <<"1", " ", "2", " ", "a", "d", "d", " ", "3", " ", "m", "u", "l", " ",
    "p", "r", "i", "n", "t", " ", "p", "o", "p", " ", "1", " ", "2", " ",
    "3", " ", "n", "u", "l", "l", " ", "c", "o", "n", "s", " ", "c", "o",
    "n", "s", " ", "c", "o", "n", "s", " ", "p", "r", "i", "n", "t">>

\* push list(1,2,3); push 4; push list(5,6,7); pop; pop; push 8
Scenario ==
  <<"1", " ", "2", " ", "3", " ", "n", "u", "l", "l", " ", "c", "o", "n",
    "s", " ", "c", "o", "n", "s", " ", "c", "o", "n", "s", " ", "4", " ",
    "5", " ", "6", " ", "7", " ", "n", "u", "l", "l", " ", "c", "o", "n",
    "s", " ", "c", "o", "n", "s", " ", "c", "o", "n", "s", " ", "p", "o",
    "p", " ", "p", "o", "p", " ", "8">>

\* an improper list, subtraction, signs, a tab and a line break
Dotted ==
  <<"7", " ", "-", "2", " ", "s", "u", "b", "\t", "+", "3", " ", "c", "o",
    "n", "s", " ", "p", "r", "i", "n", "t">>

\* a lexeme that is no keyword
Unknown ==
  <<"1", " ", "d", "u", "p">>

\* every operator, with operands that tell a op b from b op a
Operators ==
  <<"1", "2", " ", "7", " ", "3", " ", "s", "u", "b", " ", "9", " ", "7",
    " ", "m", "o", "d", " ", "a", "d", "d", " ", "d", "i", "v", " ", "3",
    " ", "m", "u", "l", " ", "5", " ", "c", "o", "n", "s">>

\* arithmetic on an operand that is no Number
NullAdd ==
  <<"n", "u", "l", "l", " ", "1", " ", "a", "d", "d">>

\* more pops than pushes
Underflow ==
  <<"1", " ", "p", "o", "p", " ", "p", "o", "p">>

Programs == {Code, Scenario, Dotted, Unknown, Operators, NullAdd, Underflow}

InitProgram ==
  /\ code \in Programs
  /\ heap = [a \in 1..ProgObj |-> Object]
  /\ list_of_objects = NULL
  /\ stack = <<>>
  /\ stack_length = 0
  /\ pc = "idle"
  /\ mi = 0
  /\ callstack = <<>>
  /\ object = NULL
  /\ previous = NULL
  /\ ret = NULL
  /\ trace = <<>>
  /\ atcall = NoCall
  /\ marked = [a \in 1..ProgObj |-> 0]
  /\ to = 0
  /\ from = 0
  /\ token = "NONE"
  /\ output = <<>>
  /\ collects = 0
  /\ appended = <<>>
  /\ got = -1

NextProgram ==
  \/ interpret
  \/ main
  \/ mark
  \/ mark_elements
  \/ mark_return
  \/ sweep_begin
  \/ sweep
  \/ sweep_return

SpecProgram == InitProgram /\ [][NextProgram]_vars

\* An owner that runs the interpreter on a short program and, between its
\* steps, calls the library and the collector itself.
OwnerCode ==
  <<"1", " ", "n", "u", "l", "l", " ", "c", "o", "n", "s", " ", "p", "o", "p">>

InitOwner ==
  /\ code = OwnerCode
  /\ heap = [a \in Addr |-> Object]
  /\ list_of_objects = NULL
  /\ stack = <<>>
  /\ stack_length = 0
  /\ pc = "idle"
  /\ mi = 0
  /\ callstack = <<>>
  /\ object = NULL
  /\ previous = NULL
  /\ ret = NULL
  /\ trace = <<>>
  /\ atcall = NoCall
  /\ marked = NoMarks
  /\ to = 0
  /\ from = 0
  /\ token = "NONE"
  /\ output = <<>>
  /\ collects = 0
  /\ appended = <<>>
  /\ got = -1

NextOwner == Next \/ interpret

SpecOwner == InitOwner /\ [][NextOwner]_vars

\* The programs never exhaust the addresses: malloc always has one to return.
ProgramsFit == malloc(heap) # {}

\* ================================================================ claims
Allocated(h) == {a \in DOMAIN h : h[a].type # "FREE"}
Returned == pc = "idle" /\ atcall.status = "returned"
Released == Range(atcall.list) \ Registered(heap, list_of_objects)

\* C1: when collect() has returned, the registry holds exactly the objects
\* that were transitively reachable from the root stack when it was invoked:
\* every one of them is still an allocated node of the registry, and every
\* other object that was registered has been released.
C1_RegistryIsReachableSet ==
  Returned =>
    /\ Registered(heap, list_of_objects) = atcall.reach
    /\ Allocated(heap) = atcall.reach
    /\ atcall.reach \subseteq Range(atcall.list)

\* a collection that kept one object and released another
C1_Witness ==
  /\ Returned
  /\ atcall.reach # {}
  /\ Released # {}

\* C2: when collect() was invoked with stack_length = 0 and has returned,
\* list_of_objects is NULL and no object is left allocated.
C2_EmptyStackEmptiesRegistry ==
  (Returned /\ Len(atcall.stack) = 0) =>
    (list_of_objects = NULL /\ Allocated(heap) = {})

\* two allocated objects, one referring to the other, collected with no root
C2_Witness ==
  /\ Returned
  /\ Len(atcall.stack) = 0
  /\ Len(atcall.list) = 2
  /\ \E a \in Range(atcall.list) : Pointees(atcall.heap, a) # {}

\* The work the mark phase still has to do: the roots not yet passed to
\* mark_object, the calls the active frames have yet to make and their
\* returns, and, for every unmarked object, the frame it can still open.
RECURSIVE FrameWork(_, _)
FrameWork(h, cs) ==
  IF cs = <<>> THEN 0
  ELSE Len(Children(h, cs[1].obj)) - cs[1].i + 1 + FrameWork(h, Tail(cs))

MostChildren(h) ==
  LET n == {Len(Children(h, a)) : a \in Allocated(h)} IN
  IF n = {} THEN 0 ELSE CHOOSE k \in n : \A j \in n : j <= k

MarkMeasure ==
  (IF pc = "mark" THEN 1 ELSE 0) + (stack_length - mi) + FrameWork(heap, callstack)
  + (MostChildren(heap) + 2) * Cardinality({a \in Allocated(heap) : heap[a].mark = 0})

\* C3: the mark phase terminates and marks each reachable node exactly once:
\* every step of the phase strictly decreases a natural-number measure, some
\* step is possible until mark() returns, no object has its mark set more
\* than once, and when mark() returns exactly the reachable objects have had
\* their mark set (once).
C3_MarkTerminatesMarkingOnce ==
  [][pc = "mark" =>
       /\ ENABLED (mark \/ mark_elements \/ mark_return \/ sweep_begin)
       /\ MarkMeasure >= 0
       /\ MarkMeasure' < MarkMeasure
       /\ \A a \in DOMAIN heap : marked'[a] <= 1 /\ heap'[a].mark = marked'[a]
       /\ pc' = "sweep" =>
            \A a \in DOMAIN heap : marked'[a] = 1 <=> a \in atcall.reach]_vars

\* mark() has returned on a graph with a cycle through a reachable object
C3_Witness ==
  /\ pc = "sweep" /\ trace = <<>>
  /\ \E a \in atcall.reach :
       /\ a \in Closure(heap, Pointees(heap, a), Cardinality(DOMAIN heap))
       /\ marked[a] = 1

\* C4: a collect() call runs to completion on every object graph: sweep,
\* with the trace line it prints for each node, never gets stuck.
C4_CollectRunsToCompletion == pc # "hung"

\* C5: between operations every object in the registry has mark = 0.
C5_IdleMarksClear ==
  pc = "idle" => \A a \in Registered(heap, list_of_objects) : heap[a].mark = 0

\* a collection has returned with survivors, which were marked during it
C5_Witness ==
  /\ Returned
  /\ list_of_objects # NULL
  /\ \A a \in Registered(heap, list_of_objects) : marked[a] = 1

\* C6: a collect() invoked right after a collect() returned releases nothing:
\* when it returns the registry is the sequence of nodes it was invoked with,
\* all marks are 0 and no line of its trace announces a deletion.
C6_SecondCollectIsNoOp ==
  (Returned /\ atcall.again) =>
    /\ Registry(heap, list_of_objects) = atcall.list
    /\ \A a \in Range(atcall.list) : heap[a].mark = 0
    /\ \A i \in 1..Len(trace) : trace[i].kind = "I won't delete this: "
    /\ Len(trace) = Len(atcall.list)

\* the second of two consecutive collections has returned, with survivors
C6_Witness == Returned /\ atcall.again /\ Len(atcall.list) > 0

\* C7: after appending e_0..e_(N-1) to a fresh array its length is N, its
\* capacity is 16 doubled until it holds N, get_element returns e_i for every
\* index i below N, and so did the last get_element call made.
C7_AppendGetRoundTrip ==
  LET N == Len(appended) IN
  /\ heap[TheArray].length = N
  /\ heap[TheArray].size =
       (IF N <= INITIAL_ARRAY_SIZE THEN INITIAL_ARRAY_SIZE
        ELSE IF N <= 2 * INITIAL_ARRAY_SIZE THEN 2 * INITIAL_ARRAY_SIZE
        ELSE 4 * INITIAL_ARRAY_SIZE)
  /\ Len(heap[TheArray].array) = heap[TheArray].size
  /\ \A i \in 0..(N - 1) : get_element(M, TheArray, i).ret = appended[i + 1]
  /\ got >= 0 => ret = appended[got + 1]

\* 33 elements, not all the same and one of them NULL, were appended across
\* both doublings and the last one was read back
C7_Witness ==
  /\ Len(appended) = 33
  /\ heap[TheArray].size = 64
  /\ got = 32
  /\ NULL \in Range(appended)
  /\ Cardinality(Range(appended)) > 1

\* C8: each allocation returns an address that was not in the registry, with
\* mark 0, makes it the head of the registry, whose tail is the old registry,
\* and changes no previously registered node and nothing of the root stack.
C8_AllocationPrepends ==
  [][(NewNumber \/ NewPair \/ NewArray \/ NewString) =>
       /\ ret' \notin Registered(heap, list_of_objects)
       /\ ret' # NULL
       /\ heap'[ret'].mark = 0
       /\ heap'[ret'].type \in {"NUMBER", "PAIR", "ARRAY", "STRING"}
       /\ list_of_objects' = ret'
       /\ Registry(heap', list_of_objects') =
            <<ret'>> \o Registry(heap, list_of_objects)
       /\ \A a \in Registered(heap, list_of_objects) : heap'[a] = heap[a]
       /\ stack' = stack
       /\ stack_length' = stack_length]_vars

\* an allocation has just been made on top of a registry that held a node,
\* with a root on the stack
C8_Witness ==
  /\ pc = "idle" /\ ret # NULL /\ ret = list_of_objects
  /\ heap[ret].next # NULL
  /\ stack_length > 0

IsPrefix(s, t) == Len(s) <= Len(t) /\ s = SubSeq(t, 1, Len(s))

\* o is a proper list of Number objects with the values vals.
RECURSIVE IsList(_, _, _)
IsList(h, o, vals) ==
  IF vals = <<>> THEN o = NULL
  ELSE /\ o # NULL
       /\ h[o].type = "PAIR"
       /\ IsNumber(h, h[o].head)
       /\ h[h[o].head].number = Head(vals)
       /\ IsList(h, h[o].tail, Tail(vals))

\* C9: the run of the built-in program never leaves defined behaviour, its
\* print output is at every moment a prefix of <<"9", "(1 2 3)">>, and once
\* interpret has met the end of the input the output is exactly these two
\* lines, the cursor is at the end of the text and the stack holds one
\* entry, the proper list (1 2 3).
C9_BuiltInProgram ==
  code = Code =>
    /\ pc \in {"idle", "mark", "sweep"}
    /\ IsPrefix(output, <<"9", "(1 2 3)">>)
    /\ token = "END_TOKEN" =>
         /\ output = <<"9", "(1 2 3)">>
         /\ to = Len(code)
         /\ stack_length = 1
         /\ Len(stack) = 1
         /\ IsList(heap, stack[1], <<1, 2, 3>>)

\* interpret has returned from the built-in program
C9_Witness == code = Code /\ token = "END_TOKEN" /\ pc = "idle" /\ collects = 0

\* An object without its registry link and mark: its type and the union.
Payload(o) == [o EXCEPT !.next = NULL, !.mark = 0]

\* The text print_object gives for the object a as it was when the last
\* collection was invoked.
TextAtCall(a) == print_object(atcall.heap, a, PrintFuel(atcall.heap)).text
WithText(texts) == {a \in Range(atcall.list) : TextAtCall(a) \in texts}
Deleted(a) ==
  \E i \in 1..Len(trace) :
    trace[i] = [kind |-> "I will delete this: ", obj |-> a, text |-> TextAtCall(a)]

\* C10: in the scenario, when interpret has returned and nothing was
\* collected yet, the stack is [list(1,2,3), Number 8] and 14 objects are
\* registered; when the first collection, invoked then, has returned, the
\* three pairs and three numbers of list(1,2,3) and Number 8 are registered
\* and unchanged, the stack is as before, and the three pairs and three
\* numbers of list(5,6,7) are released, out of the registry, each with its
\* own "I will delete this: " line in the trace.
C10_Scenario ==
  (code = Scenario /\ token = "END_TOKEN") =>
    /\ (pc = "idle" /\ collects = 0) =>
         /\ stack_length = 2
         /\ IsList(heap, stack[1], <<1, 2, 3>>)
         /\ IsNumber(heap, stack[2]) /\ heap[stack[2]].number = 8
         /\ Len(Registry(heap, list_of_objects)) = 14
    /\ (Returned /\ collects = 1) =>
         LET kept == WithText({"(1 2 3)", "(2 3)", "(3)", "1", "2", "3", "8"})
             gone == WithText({"(5 6 7)", "(6 7)", "(7)", "5", "6", "7"})
         IN /\ Cardinality(kept) = 7
            /\ Cardinality(gone) = 6
            /\ kept \subseteq Registered(heap, list_of_objects)
            /\ \A a \in kept : Payload(heap[a]) = Payload(atcall.heap[a])
            /\ stack_length = 2
            /\ IsList(heap, stack[1], <<1, 2, 3>>)
            /\ IsNumber(heap, stack[2]) /\ heap[stack[2]].number = 8
            /\ \A a \in gone :
                 /\ a \notin Registered(heap, list_of_objects)
                 /\ heap[a].type = "FREE"
                 /\ Deleted(a)

\* the scenario has run and its one collection has returned
C10_Witness ==
  code = Scenario /\ token = "END_TOKEN" /\ Returned /\ collects = 1

\* C11: stack_length stays within [0, STACK_SIZE]: it never becomes negative
\* and never exceeds 256, so no slot outside stack[0..255] is accessed.
C11_StackLengthInBounds == stack_length >= 0 /\ stack_length <= STACK_SIZE

\* C12: a step of the interpreter for an arithmetic keyword or cons, taken
\* with a below b on top of the stack, pops both and pushes one new object:
\* a Number a op b (the number under the top is the left-hand operand), or a
\* Pair with head a and tail b. stack_length decreases by one and the
\* entries below the two operands stay as they were.
C12_PopsRightOperandFirst ==
  [][(interpret /\ pc' = "idle" /\ token' \in ArithmeticTokens \cup {"CONS_TOKEN"}) =>
       LET a == stack[stack_length - 1]
           b == stack[stack_length]
           top == stack'[stack_length']
       IN /\ stack_length' = stack_length - 1
          /\ Len(stack') = stack_length'
          /\ SubSeq(stack', 1, stack_length' - 1) = SubSeq(stack, 1, stack_length - 2)
          /\ top # NULL
          /\ top \notin Registered(heap, list_of_objects)
          /\ top = list_of_objects'
          /\ token' = "CONS_TOKEN" =>
               /\ heap'[top].type = "PAIR"
               /\ heap'[top].head = a
               /\ heap'[top].tail = b
          /\ token' \in ArithmeticTokens =>
               LET x == heap[a].number
                   y == heap[b].number
                   z == heap'[top].number
               IN /\ heap'[top].type = "NUMBER"
                  /\ token' = "ADD_TOKEN" => z = x + y
                  /\ token' = "SUB_TOKEN" => z + y = x
                  /\ token' = "MUL_TOKEN" => z = x * y
                  /\ token' = "DIV_TOKEN" => z * y = x
                  /\ (token' = "MOD_TOKEN" /\ x >= 0 /\ y > 0) => z = x % y]_vars

\* the run of "12 7 3 sub 9 7 mod add div 3 mul 5 cons" has ended with the
\* pair (6 . 5) on the stack: 12 / ((7 - 3) + 9 mod 7) * 3 is 6
C12_Witness ==
  /\ code = Operators /\ token = "END_TOKEN" /\ pc = "idle"
  /\ stack_length = 1
  /\ heap[stack[1]].type = "PAIR"
  /\ IsNumber(heap, heap[stack[1]].head) /\ heap[heap[stack[1]].head].number = 6
  /\ IsNumber(heap, heap[stack[1]].tail) /\ heap[heap[stack[1]].tail].number = 5

\* C13: a sweep pass prints one line per node of the registry it started
\* with, in registry order: while the pass runs the lines printed so far are
\* those of the nodes before sweep's cursor, when it has returned there is
\* one line for every node, and a line starts with "I won't delete this: "
\* exactly if its node was marked, which then is still in the registry, and
\* with "I will delete this: " exactly if it was not, which then is not.
C13_OneTraceLinePerNode ==
  (pc = "sweep" \/ Returned) =>
    /\ Len(trace) <= Len(atcall.list)
    /\ Returned => Len(trace) = Len(atcall.list)
    /\ pc = "sweep" =>
         object = (IF Len(trace) < Len(atcall.list)
                   THEN atcall.list[Len(trace) + 1] ELSE NULL)
    /\ \A i \in 1..Len(trace) :
         /\ trace[i].obj = atcall.list[i]
         /\ trace[i].kind \in {"I won't delete this: ", "I will delete this: "}
         /\ trace[i].kind = "I won't delete this: " <=> marked[trace[i].obj] = 1
         /\ trace[i].kind = "I won't delete this: " <=>
              trace[i].obj \in Registered(heap, list_of_objects)
         /\ trace[i].kind = "I will delete this: " <=>
              heap[trace[i].obj].type = "FREE"

\* a pass has returned that printed a line of each kind
C13_Witness ==
  /\ Returned
  /\ Len(trace) = 2
  /\ {trace[1].kind, trace[2].kind} = {"I won't delete this: ", "I will delete this: "}

IsSuffix(s, t) == Len(s) <= Len(t) /\ s = SubSeq(t, Len(t) - Len(s) + 1, Len(t))

\* C14: a step that is not a round of sweep's loop (an allocation, an array
\* or stack call, a step of the interpreter, the start of a collection, a
\* step of mark) unlinks and releases nothing: the registry it leaves ends
\* with the registry it found, and every object that was allocated still is,
\* whether it is reachable or not.
C14_OnlySweepReleases ==
  [][pc # "sweep" =>
       /\ IsSuffix(Registry(heap, list_of_objects), Registry(heap', list_of_objects'))
       /\ \A a \in Allocated(heap) : heap'[a].type = heap[a].type
       /\ \A a \in Registered(heap, list_of_objects) : heap'[a].next = heap[a].next]_vars

\* the interpreter has popped the pair it built: the pair and its number are
\* unreachable and still registered
C14_Witness ==
  /\ code = OwnerCode /\ token = "POP_TOKEN" /\ pc = "idle" /\ atcall = NoCall
  /\ Cardinality(Registered(heap, list_of_objects)) = 2
  /\ Reachable(heap, stack, stack_length) = {}

\* C15: the registry is a finite list without a cycle that ends in NULL and
\* holds every allocated object exactly once and nothing else; the node at
\* sweep's cursor, the only one sweep can pass to delete_object, is a node
\* of the registry that has not been released; no pass has two lines for the
\* same node, and a node a pass has deleted is out of the registry.
C15_RegistryExclusiveNoDoubleFree ==
  LET reg == Registry(heap, list_of_objects) IN
  /\ Len(reg) <= Cardinality(DOMAIN heap)
  /\ Len(reg) = Cardinality(Range(reg))
  /\ reg # <<>> => heap[reg[Len(reg)]].next = NULL
  /\ Range(reg) = Allocated(heap)
  /\ (pc = "sweep" /\ object # NULL) => object \in Range(reg)
  /\ \A i, j \in 1..Len(trace) : trace[i].obj = trace[j].obj => i = j
  /\ \A i \in 1..Len(trace) :
       trace[i].kind = "I will delete this: " =>
         trace[i].obj \notin Range(reg) /\ heap[trace[i].obj].type = "FREE"

\* a pass has returned that kept the head of the registry and deleted the
\* node behind it
C15_Witness ==
  /\ Returned
  /\ Len(trace) = 2
  /\ trace[1].kind = "I won't delete this: "
  /\ trace[2].kind = "I will delete this: "
  /\ list_of_objects = trace[1].obj

\* C16: a Pair chain that ends in an object t that is neither null nor a
\* Pair is printed with " . " and the rendering of t before the closing
\* parenthesis: the print of "7 -2 sub +3 cons print", whose pair has the
\* head 9 and the tail 3, returns and writes (9 . 3).
C16_ImproperListTail ==
  code = Dotted =>
    /\ pc # "crashed"
    /\ output # <<>> => output = <<"(9 . 3)">>

\* The texts made only of numeric literals and the nine keywords in which
\* every keyword finds its operands on the stack.
WellFormed == {Code, Scenario, Dotted, Operators, NullAdd}

\* C17: on a text of literals and keywords with enough operands the
\* interpreter goes from token to token until end-of-input: no step of it
\* leaves the interpreter at a token from which it cannot go on.
C17_InterpreterReachesEnd == code \in WellFormed => pc # "undefined"

\* The objects print_object(o) dereferences: o, and through Pair heads and
\* tails and Array elements below length every object it comes to.
Dereferenced(h, o) == Closure(h, {o}, Cardinality(DOMAIN h))

\* C18: when a round of sweep's loop renders the line of the node at its
\* cursor, every object the rendering dereferences is still allocated: none
\* was released earlier in the pass.
C18_SweepReadsNoReleasedObject ==
  (pc = "sweep" /\ object # NULL) => Dereferenced(heap, object) \subseteq Allocated(heap)

\* C19: however the steps of the interpreter and the collections invoked
\* between them interleave, every object that is on the root stack or can
\* be reached from it through heads, tails and array elements is an
\* allocated node of the registry: no root and nothing under a root dangles.
C19_NoLiveRootDangles ==
  LET live == Reachable(heap, stack, stack_length) IN
  /\ live \subseteq Registered(heap, list_of_objects)
  /\ live \subseteq Allocated(heap)

\* in the built-in program a collection invoked right after the tokenizer
\* made and pushed a Number has returned: it released garbage and left the
\* Number, the only root, in the registry
C19_Witness ==
  /\ code = Code /\ token = "NUMBER_TOKEN" /\ Returned
  /\ Released # {}
  /\ stack_length = 1
  /\ IsNumber(heap, stack[1])
  /\ stack[1] = atcall.list[1]

\* The nodes of the sequence s that are in the set keep, in the order of s.
RECURSIVE Surviving(_, _)
Surviving(s, keep) ==
  IF s = <<>> THEN <<>>
  ELSE (IF Head(s) \in keep THEN <<Head(s)>> ELSE <<>>) \o Surviving(Tail(s), keep)

\* C20: from the invocation of collect() on, the root stack and stack_length
\* are what they were and every object that is still allocated has the type
\* and the payload it had; when collect() has returned, the registry is the
\* registry of the invocation without the released nodes, the survivors in
\* the same relative order.
C20_SurvivorsUnchanged ==
  atcall.status \in {"running", "returned"} =>
    /\ stack = atcall.stack
    /\ stack_length = Len(atcall.stack)
    /\ \A a \in Allocated(heap) : Payload(heap[a]) = Payload(atcall.heap[a])
    /\ Returned =>
         Registry(heap, list_of_objects) = Surviving(atcall.list, atcall.reach)

\* a collection has returned that kept two nodes, one of which refers to an
\* object, with a root on the stack
C20_Witness ==
  /\ Returned
  /\ Len(Registry(heap, list_of_objects)) = 2
  /\ \E a \in Registered(heap, list_of_objects) : Pointees(heap, a) # {}
  /\ stack_length > 0

====
